---- MODULE Spec2Model ----
(***************************************************************************)
(* A model of the kvs storage engine (src/src/kvs/lib.rs): the log         *)
(* directory, the record codec, the positioned reader and writer, the      *)
(* index, recovery (Loader::load), set / remove / get and compaction.      *)
(*                                                                         *)
(* Log files are sequences of bytes (one-character strings); records are   *)
(* encoded and parsed byte by byte, so that a locator that points at the   *)
(* wrong bytes is seen as such.                                            *)
(***************************************************************************)
EXTENDS Integers, Sequences, FiniteSets, TLC

\* ------------------------------------------------------------------ bounds

\* The largest log version the model lets a store create.
MaxVersion == 4

\* The largest number of records (Set or Remove) appended over a whole run.
MaxAppends == 2

\* The same for the runs of a single session (SpecMap), where it takes three
\* records to have get move a reader before a set compacts.
MaxSessionAppends == 3

\* The largest number of I/O errors injected over a whole run (SpecFail).
MaxFails == 1

\* The compaction threshold of the source.
MAX_STALE_BYTES == 100

\* ------------------------------------------------------------------ inputs

\* The long value makes one Set record longer than MAX_STALE_BYTES, so that a
\* single overwrite of it triggers the automatic compaction.
LongValue == [i \in 1..(MAX_STALE_BYTES - 28) |-> "x"]

Keys == {<<"a">>, <<"b">>}

Values == {<<"1">>, LongValue}

\* The value that makes one Set record exactly MAX_STALE_BYTES long, so that
\* an overwrite of it brings stale_bytes to the threshold and not above it.
ExactValue == [i \in 1..(MAX_STALE_BYTES - 30) |-> "y"]

ThresholdValues == {ExactValue, LongValue}

\* ------------------------------------------------------------------ helpers

Max(S) == CHOOSE x \in S : \A y \in S : y <= x

Min2(a, b) == IF a <= b THEN a ELSE b

\* Bytes [off, off + len) of a byte sequence (0-based offset), cut at its end.
Slice(b, off, len) ==
    IF off >= Len(b) \/ len <= 0 THEN <<>>
    ELSE SubSeq(b, off + 1, Min2(off + len, Len(b)))

Restrict(f, S) == [x \in S |-> f[x]]

\* All orderings of a finite set, as sequences without repetition.
RECURSIVE Perms(_)
Perms(S) ==
    IF S = {} THEN {<<>>}
    ELSE UNION {{<<x>> \o p : p \in Perms(S \ {x})} : x \in S}

\* ------------------------------------------------------------------ the record codec

SetCmd(k, v) == [type |-> "Set", key |-> k, value |-> v]

RemoveCmd(k) == [type |-> "Remove", key |-> k, value |-> <<>>]

NoCmd == [type |-> "None", key |-> <<>>, value |-> <<>>]

LitSetOpen == <<"{", "\"", "S", "e", "t", "\"", ":", "{",
                "\"", "k", "e", "y", "\"", ":", "\"">>

LitValue == <<"\"", ",", "\"", "v", "a", "l", "u", "e", "\"", ":", "\"">>

LitRemoveOpen == <<"{", "\"", "R", "e", "m", "o", "v", "e", "\"", ":", "{",
                   "\"", "k", "e", "y", "\"", ":", "\"">>

LitClose == <<"\"", "}", "}">>

\* serde_json::to_writer of a Command: {"Set":{"key":"k","value":"v"}} or
\* {"Remove":{"key":"k"}}.
Encode(cmd) ==
    IF cmd.type = "Set"
    THEN LitSetOpen \o cmd.key \o LitValue \o cmd.value \o LitClose
    ELSE LitRemoveOpen \o cmd.key \o LitClose

\* The number of leading bytes of lit that b carries from offset off on.
RECURSIVE MatchLen(_, _, _, _)
MatchLen(b, off, lit, n) ==
    IF n < Len(lit) /\ off + n < Len(b) /\ b[off + n + 1] = lit[n + 1]
    THEN MatchLen(b, off, lit, n + 1)
    ELSE n

\* The offset of the first double quote of b at or after off, Len(b) if none.
RECURSIVE ScanQuote(_, _)
ScanQuote(b, off) ==
    IF off >= Len(b) THEN Len(b)
    ELSE IF b[off + 1] = "\"" THEN off
    ELSE ScanQuote(b, off + 1)

\* A failed parse: the decoder holds one byte of lookahead, so it has taken
\* the offending byte from the reader too.
ParseFail(b, at) == [ok |-> FALSE, cmd |-> NoCmd, end |-> Min2(at + 1, Len(b))]

\* After the opening literal: the key string, then for a Set the value string,
\* then the closing braces.
ParseBody(b, off, type) ==
    LET kq == ScanQuote(b, off)
        key == Slice(b, off, kq - off)
    IN  IF kq >= Len(b) THEN ParseFail(b, Len(b))
        ELSE IF type = "Remove"
        THEN LET m == MatchLen(b, kq, LitClose, 0)
             IN  IF m = Len(LitClose)
                 THEN [ok |-> TRUE, cmd |-> RemoveCmd(key), end |-> kq + m]
                 ELSE ParseFail(b, kq + m)
        ELSE LET m == MatchLen(b, kq, LitValue, 0)
                 vo == kq + m
                 vq == ScanQuote(b, vo)
                 c  == MatchLen(b, vq, LitClose, 0)
             IN  IF m < Len(LitValue) THEN ParseFail(b, kq + m)
                 ELSE IF vq >= Len(b) THEN ParseFail(b, Len(b))
                 ELSE IF c = Len(LitClose)
                 THEN [ok |-> TRUE,
                       cmd |-> SetCmd(key, Slice(b, vo, vq - vo)),
                       end |-> vq + c]
                 ELSE ParseFail(b, vq + c)

\* The decoder: one Command read from b at offset off. ok, the command, and
\* end, the offset after the bytes it took.
ParseCommand(b, off) ==
    LET s == MatchLen(b, off, LitSetOpen, 0)
        r == MatchLen(b, off, LitRemoveOpen, 0)
    IN  IF s = Len(LitSetOpen) THEN ParseBody(b, off + s, "Set")
        ELSE IF r = Len(LitRemoveOpen) THEN ParseBody(b, off + r, "Remove")
        ELSE ParseFail(b, off + (IF s >= r THEN s ELSE r))

\* serde_json::from_reader over exactly the bytes b: one Command and nothing
\* after it.
FromReader(b) ==
    LET p == ParseCommand(b, 0)
    IN  IF p.ok /\ p.end < Len(b) THEN ParseFail(b, p.end) ELSE p

\* ------------------------------------------------------------------ the log directory

Put(f, k, v) == [x \in DOMAIN f \cup {k} |-> IF x = k THEN v ELSE f[x]]

\* A KvsReader: pos is its pos field, which only seek assigns; cur is the
\* offset at which the next read of the underlying BufReader starts.
NewReader == [pos |-> 0, cur |-> 0]

\* A new_log_file that inserts no reader for the log it creates.
NewLogFileNoReader(s, v) ==
    [s EXCEPT !.files = IF v \in DOMAIN s.files THEN s.files
                        ELSE Put(s.files, v, <<>>)]

\* new_log_file: the file is created if it does not exist (create, append),
\* and a fresh reader on it is inserted into the readers map.
NewLogFile(s, v) ==
    [s EXCEPT !.files = IF v \in DOMAIN s.files THEN s.files
                        ELSE Put(s.files, v, <<>>),
              !.readers = Put(s.readers, v, NewReader)]

Swap(h, i, j) == [h EXCEPT ![i + 1] = h[j + 1], ![j + 1] = h[i + 1]]

\* BinaryHeap::sift_down_range on the array h (0-based positions).
RECURSIVE SiftDownRange(_, _, _)
SiftDownRange(h, pos, end) ==
    LET child == 2 * pos + 1
    IN  IF end >= 2 /\ child <= end - 2
        THEN LET c == IF h[child + 1] <= h[child + 2] THEN child + 1 ELSE child
             IN  IF h[pos + 1] >= h[c + 1] THEN h
                 ELSE SiftDownRange(Swap(h, pos, c), c, end)
        ELSE IF child = end - 1 /\ h[pos + 1] < h[child + 1]
        THEN Swap(h, pos, child)
        ELSE h

\* BinaryHeap::rebuild: sift down the positions n - 1, ..., 0 for n = len / 2.
RECURSIVE Rebuild(_, _)
Rebuild(h, n) ==
    IF n = 0 THEN h ELSE Rebuild(SiftDownRange(h, n - 1, Len(h)), n - 1)

\* version_list on a directory that read_dir lists in the order listing: the
\* versions collected into a BinaryHeap; the result is the heap's array.
VersionList(listing) == Rebuild(listing, Len(listing) \div 2)

\* The heaps version_list can return for the directory dir, one per order in
\* which read_dir may list it.
VersionHeaps(dir) == {VersionList(l) : l \in Perms(DOMAIN dir)}

Reverse(q) == [i \in 1..Len(q) |-> q[Len(q) + 1 - i]]

\* The order in which open visits the versions: version_heap.iter().rev().
ReplayOrder(heap) == Reverse(heap)

\* The last version generated taken as the current one.
CurrentVersionLast(heap) == IF Len(heap) = 0 THEN 0 ELSE heap[1]

\* version_heap.peek().unwrap_or(&0) + 1
CurrentVersion(heap) == (IF Len(heap) = 0 THEN 0 ELSE heap[1]) + 1

\* ------------------------------------------------------------------ recovery

Locator(ver, start, end) == [ver |-> ver, pos |-> start, len |-> end - start]

\* Loader::load from offset pos of the bytes b of log version: ok, the index
\* and the stale bytes counted.
RECURSIVE LoadFrom(_, _, _, _, _)
LoadFrom(version, b, pos, index, stale) ==
    IF pos >= Len(b) THEN [ok |-> TRUE, index |-> index, stale |-> stale]
    ELSE LET p == ParseCommand(b, pos)
             key == p.cmd.key
             old == IF key \in DOMAIN index THEN index[key].len ELSE 0
         IN  IF ~p.ok THEN [ok |-> FALSE, index |-> index, stale |-> stale]
             ELSE IF p.cmd.type = "Set"
             THEN LoadFrom(version, b, p.end,
                           Put(index, key, Locator(version, pos, p.end)),
                           stale + old)
             ELSE LoadFrom(version, b, p.end,
                           Restrict(index, DOMAIN index \ {key}),
                           stale + old + (p.end - pos))

\* A load that stops at a record it cannot decode and keeps what it has.
LoadTolerant(version, b, index) ==
    [LoadFrom(version, b, 0, index, 0) EXCEPT !.ok = TRUE]

Load(version, b, index) == LoadFrom(version, b, 0, index, 0)

\* The loop of open over the versions in order: each log is loaded into the
\* index and a fresh reader on it is kept.
RECURSIVE LoadAll(_, _, _)
LoadAll(s, order, i) ==
    IF i > Len(order) THEN [ok |-> TRUE, s |-> s]
    ELSE LET v == order[i]
             l == Load(v, s.files[v], s.index)
         IN  IF ~l.ok THEN [ok |-> FALSE, s |-> s]
             ELSE LoadAll([s EXCEPT !.index = l.index,
                                    !.stale = s.stale + l.stale,
                                    !.readers = Put(s.readers, v, NewReader)],
                          order, i + 1)

EmptyFn == [x \in {} |-> 0]

\* The store before open has loaded anything.
Blank(dir) ==
    [files |-> dir, index |-> EmptyFn, readers |-> EmptyFn, stale |-> 0,
     version |-> 0, wfile |-> 0, wpos |-> 0, wbuf |-> <<>>]

Res(tag) == [tag |-> tag, val |-> <<>>]

\* KvStore::open on the directory dir, for which version_list returns heap.
KvOpen(dir, heap) ==
    LET cur == CurrentVersion(heap)
        l == LoadAll(Blank(dir), ReplayOrder(heap), 1)
    IN  IF ~l.ok THEN [s |-> Blank(dir), res |-> Res("Serde")]
        ELSE [s |-> [NewLogFile(l.s, cur) EXCEPT !.version = cur,
                                                  !.wfile = cur, !.wpos = 0],
              res |-> Res("Ok")]

\* KvStore::open_with_opts: the body of open without create_dir_all.
KvOpenWithOpts(dir, heap) ==
    LET cur == CurrentVersion(heap)
        l == LoadAll(Blank(dir), ReplayOrder(heap), 1)
    IN  IF ~l.ok THEN [s |-> Blank(dir), res |-> Res("Serde")]
        ELSE [s |-> [NewLogFile(l.s, cur) EXCEPT !.version = cur,
                                                  !.wfile = cur, !.wpos = 0],
              res |-> Res("Ok")]

\* ------------------------------------------------------------------ get

\* KvStore::get: seek the reader of the locator's version, decode the len
\* bytes from there, and return the value of a Set whatever its key.
KvGet(s, key) ==
    IF key \notin DOMAIN s.index THEN [s |-> s, res |-> Res("None")]
    ELSE LET cp == s.index[key]
         IN  IF cp.ver \notin DOMAIN s.readers
             THEN [s |-> s, res |-> Res("Panic")]
             ELSE LET p == FromReader(Slice(s.files[cp.ver], cp.pos, cp.len))
                      t == [s EXCEPT !.readers[cp.ver] =
                                [pos |-> cp.pos, cur |-> cp.pos + p.end]]
                  IN  IF ~p.ok THEN [s |-> t, res |-> Res("Serde")]
                      ELSE IF p.cmd.type = "Set"
                      THEN [s |-> t, res |-> [tag |-> "Some", val |-> p.cmd.value]]
                      ELSE [s |-> t, res |-> Res("UnexpectedCommandType")]

\* ------------------------------------------------------------------ compaction

\* The writer's buffered bytes reach the log file it has open, s.wfile
\* (BufWriter::flush, and the flush of a BufWriter that is dropped). A file
\* that was removed while open is no longer in the directory.
FlushWriter(s) ==
    [s EXCEPT !.files = IF s.wfile \in DOMAIN s.files
                        THEN [s.files EXCEPT ![s.wfile] = @ \o s.wbuf]
                        ELSE s.files,
              !.wbuf = <<>>]

\* self.version += 2; self.writer = self.new_log_file(self.version): the old
\* writer is dropped, and flushes, when the new one is assigned.
CompactNewActive(s) ==
    LET active == s.version + 2
    IN  [NewLogFile(FlushWriter(s), active) EXCEPT !.version = active,
                                                   !.wfile = active,
                                                   !.wpos = 0]

\* The first lines of compact: the two new versions and their log files. c.s is
\* the store, c.cv the compact_version, c.cbuf the bytes the compaction writer
\* buffers, c.newpos the running offset new_pos.
CompactBegin(s) ==
    LET cv == s.version + 1
    IN  [s |-> NewLogFile(CompactNewActive(s), cv), cv |-> cv, cbuf |-> <<>>,
         newpos |-> 0, panic |-> FALSE]

\* One turn of the loop over the index: the reader is sought only when its
\* pos field differs from the locator's offset, then len bytes are copied
\* from where the reader stands.
CompactCopyEntry(c, key) ==
    LET cp == c.s.index[key]
    IN  IF cp.ver \notin DOMAIN c.s.readers THEN [c EXCEPT !.panic = TRUE]
        ELSE LET r == c.s.readers[cp.ver]
                 start == IF r.pos # cp.pos THEN cp.pos ELSE r.cur
                 bytes == Slice(c.s.files[cp.ver], start, cp.len)
                 len == Len(bytes)
             IN  [c EXCEPT !.s.readers[cp.ver] =
                               [pos |-> cp.pos, cur |-> start + len],
                           !.s.index[key] =
                               Locator(c.cv, c.newpos, c.newpos + len),
                           !.cbuf = @ \o bytes,
                           !.newpos = @ + len]

\* The loop over index.values_mut(), which visits the keys in the order order.
RECURSIVE CompactCopyAll(_, _, _)
CompactCopyAll(c, order, i) ==
    IF i > Len(order) \/ c.panic THEN c
    ELSE CompactCopyAll(CompactCopyEntry(c, order[i]), order, i + 1)

\* compaction_writer.flush()
CompactFlush(c) ==
    [c EXCEPT !.s.files[c.cv] = @ \o c.cbuf, !.cbuf = <<>>]

\* A compaction that spares the log that was active when it started.
StaleVersionsBelowActive(c) == {v \in DOMAIN c.s.readers : v < c.cv - 1}

\* The versions of the readers map below the compact_version.
StaleVersions(c) == {v \in DOMAIN c.s.readers : v < c.cv}

\* The readers of the versions D are dropped and their files removed.
CompactDelete(c, D) ==
    [c.s EXCEPT !.readers = Restrict(@, DOMAIN @ \ D),
                !.files = Restrict(@, DOMAIN @ \ D)]

\* KvStore::compact, the index visited in the order order.
KvCompact(s, order) ==
    LET c == CompactFlush(CompactCopyAll(CompactBegin(s), order, 1))
    IN  IF c.panic THEN [s |-> c.s, res |-> Res("Panic")]
        ELSE [s |-> CompactDelete(c, StaleVersions(c)), res |-> Res("Ok")]

\* The directory a crash inside compact(s) can leave: after the new active log
\* is created, after both logs are created (the copies are in the compaction
\* writer's buffer, which dies with the process), after the flush, and after
\* any number of the removals, which follow the order of the readers map.
CompactCrashDisks(s, order) ==
    LET b == CompactBegin(s)
        c == CompactFlush(CompactCopyAll(b, order, 1))
    IN  {CompactNewActive(s).files, b.s.files}
            \cup {CompactDelete(c, D).files : D \in SUBSET StaleVersions(c)}

\* The stores in which compact(s) can return an I/O error:
\*  - new_log_file(self.version) fails: only self.version has changed;
\*  - new_log_file(compact_version) fails: the writer is on the new active log;
\*  - io::copy fails at entry i + 1: i entries have moved, and the compaction
\*    writer flushes them when it is dropped;
\*  - compaction_writer.flush() fails: the copied bytes are lost;
\*  - remove_file(v) fails after the logs D are removed: the reader of v is
\*    gone already.
CompactFailures(s, order) ==
    LET b == CompactBegin(s)
        all == CompactCopyAll(b, order, 1)
        c == CompactFlush(all)
    IN  {[s EXCEPT !.version = @ + 2], CompactNewActive(s), all.s}
            \cup {CompactFlush(CompactCopyAll(b, SubSeq(order, 1, i), 1)).s :
                     i \in 0..(Len(order) - 1)}
            \cup UNION {{[CompactDelete(c, D) EXCEPT
                            !.readers = Restrict(@, DOMAIN @ \ {v})] :
                         v \in StaleVersions(c) \ D} :
                       D \in SUBSET StaleVersions(c)}

\* ------------------------------------------------------------------ set and remove

\* A writer that buffers the bytes and leaves its pos where it was.
WriteCmdUntracked(s, cmd) == [s EXCEPT !.wbuf = @ \o Encode(cmd)]

\* serde_json::to_writer into the KvsWriter: the bytes are buffered and the
\* writer's pos advances.
WriteCmd(s, cmd) ==
    [s EXCEPT !.wbuf = @ \o Encode(cmd), !.wpos = @ + Len(Encode(cmd))]

\* set up to the compaction check: append, flush, insert into the index, and
\* count the old record as stale.
KvSetAppend(s, key, value) ==
    LET pos == s.wpos
        w == FlushWriter(WriteCmd(s, SetCmd(key, value)))
        old == IF key \in DOMAIN s.index THEN s.index[key].len ELSE 0
    IN  [w EXCEPT !.index = Put(@, key, Locator(s.version, pos, w.wpos)),
                  !.stale = @ + old]

\* A check that fires at the threshold already.
NeedsCompactionAtThreshold(s) == s.stale >= MAX_STALE_BYTES

\* The compaction check of set.
NeedsCompaction(s) == s.stale > MAX_STALE_BYTES

\* The lengths that the prefix of n buffered bytes can have that reaches the
\* log before a flush fails.
FlushCuts(n) == {0, n \div 2}

\* The stores in which writing cmd can fail: to_writer fails and nothing is
\* taken, or flush fails after part of the buffer has reached the log (the
\* rest stays buffered, and the writer's pos counts all of it).
WriteFailures(s, cmd) ==
    LET w == WriteCmd(s, cmd)
    IN  {s} \cup {[FlushWriter([w EXCEPT !.wbuf = SubSeq(w.wbuf, 1, n)])
                      EXCEPT !.wbuf = SubSeq(w.wbuf, n + 1, Len(w.wbuf))] :
                   n \in FlushCuts(Len(w.wbuf))}

\* The stores in which set can return an I/O error.
KvSetFailures(s, key, value, order) ==
    LET a == KvSetAppend(s, key, value)
    IN  WriteFailures(s, SetCmd(key, value))
            \cup (IF NeedsCompaction(a) THEN CompactFailures(a, order) ELSE {})

\* The stores in which remove of a key of the index can return an I/O error.
KvRemoveFailures(s, key) == WriteFailures(s, RemoveCmd(key))

\* KvStore::set
KvSet(s, key, value, order) ==
    LET a == KvSetAppend(s, key, value)
    IN  IF NeedsCompaction(a) THEN KvCompact(a, order)
        ELSE [s |-> a, res |-> Res("Ok")]

\* A remove that appends its record before it looks the key up.
KvRemoveUnchecked(s, key) ==
    LET w == FlushWriter(WriteCmd(s, RemoveCmd(key)))
    IN  IF key \in DOMAIN s.index
        THEN [s |-> [w EXCEPT !.index = Restrict(@, DOMAIN @ \ {key}),
                              !.stale = @ + s.index[key].len],
              res |-> Res("Ok")]
        ELSE [s |-> w, res |-> Res("KeyNotFound")]

\* KvStore::remove
KvRemove(s, key) ==
    IF key \in DOMAIN s.index
    THEN LET w == FlushWriter(WriteCmd(s, RemoveCmd(key)))
         IN  [s |-> [w EXCEPT !.index = Restrict(@, DOMAIN @ \ {key}),
                              !.stale = @ + s.index[key].len],
              res |-> Res("Ok")]
    ELSE [s |-> s, res |-> Res("KeyNotFound")]

\* ------------------------------------------------------------------ the command line

\* commands::remove::exec: it returns Ok(()) and opens no store.
RemoveExec(dir, key) == [dir |-> dir, res |-> Res("Ok")]

\* remove of main.rs, run on the directory dir: what it leaves of the
\* directory, what it prints, and the exit code of the process.
CliRemove(dir, key) ==
    LET r == RemoveExec(dir, key)
    IN  IF r.res.tag = "Ok"
        THEN [dir |-> r.dir, out |-> <<>>, exit |-> 0]
        ELSE [dir |-> r.dir, out |-> <<"Key not found">>, exit |-> 2]

\* ------------------------------------------------------------------ the state

VARIABLES
    files,      \* the store directory: log version -> the bytes of <version>.log
    opened,     \* TRUE while a KvStore value exists
    index,      \* KvStore.index: key -> [ver, pos, len]
    readers,    \* KvStore.readers: version -> [pos, cur]
    stale,      \* KvStore.stale_bytes
    version,    \* KvStore.version (of the last store, once it is dropped)
    wfile,      \* the version of the log file KvStore.writer has open
    wpos,       \* KvStore.writer.pos
    wbuf,       \* the bytes the writer's BufWriter holds
    ref,        \* the reference map: key -> value, NoValue when absent
    last,       \* the last call and what it returned
    appends,    \* the number of records appended so far
    fails       \* the number of I/O errors injected so far

vars == <<files, opened, index, readers, stale, version, wfile, wpos, wbuf,
          ref, last, appends, fails>>

NoValue == <<>>

Store ==
    [files |-> files, index |-> index, readers |-> readers, stale |-> stale,
     version |-> version, wfile |-> wfile, wpos |-> wpos, wbuf |-> wbuf]

Install(s) ==
    /\ files' = s.files
    /\ index' = s.index
    /\ readers' = s.readers
    /\ stale' = s.stale
    /\ version' = s.version
    /\ wfile' = s.wfile
    /\ wpos' = s.wpos
    /\ wbuf' = s.wbuf

\* The store is dropped: its writer flushes and nothing of it is left in memory.
Dropped(s) ==
    /\ files' = FlushWriter(s).files
    /\ index' = EmptyFn
    /\ readers' = EmptyFn
    /\ stale' = 0
    /\ version' = s.version
    /\ wfile' = 0
    /\ wpos' = 0
    /\ wbuf' = <<>>
    /\ opened' = FALSE

Call(op, key, val, res, compacted) ==
    [op |-> op, key |-> key, val |-> val, res |-> res, compacted |-> compacted]

Init ==
    /\ files = EmptyFn
    /\ opened = FALSE
    /\ index = EmptyFn
    /\ readers = EmptyFn
    /\ stale = 0
    /\ version = 0
    /\ wfile = 0
    /\ wpos = 0
    /\ wbuf = <<>>
    /\ ref = [k \in Keys |-> NoValue]
    /\ last = Call("new", <<>>, <<>>, Res("Ok"), FALSE)
    /\ appends = 0
    /\ fails = 0

\* What open leaves: the store when it succeeded, nothing when it failed.
Opening(op, r) ==
    /\ IF r.res.tag = "Ok"
       THEN Install(r.s) /\ opened' = TRUE
       ELSE UNCHANGED <<files, index, readers, stale, version, wfile, wpos,
                        wbuf, opened>>
    /\ last' = Call(op, <<>>, <<>>, r.res, FALSE)
    /\ UNCHANGED <<ref, appends, fails>>

Open ==
    /\ ~opened
    /\ \E heap \in VersionHeaps(files) :
          /\ CurrentVersion(heap) <= MaxVersion
          /\ Opening("open", KvOpen(files, heap))

OpenWithOpts ==
    /\ ~opened
    /\ \E heap \in VersionHeaps(files) :
          /\ CurrentVersion(heap) <= MaxVersion
          /\ Opening("open_with_opts", KvOpenWithOpts(files, heap))

Close ==
    /\ opened
    /\ Dropped(Store)
    /\ last' = Call("drop", <<>>, <<>>, Res("Ok"), FALSE)
    /\ UNCHANGED <<ref, appends, fails>>

\* What a call on the open store leaves: a panic unwinds and drops the store.
Returning(r) ==
    IF r.res.tag = "Panic" THEN Dropped(r.s)
    ELSE Install(r.s) /\ opened' = TRUE

Get ==
    /\ opened
    /\ \E key \in Keys :
          LET r == KvGet(Store, key)
          IN  /\ Returning(r)
              /\ last' = Call("get", key, <<>>, r.res, FALSE)
    /\ UNCHANGED <<ref, appends, fails>>

SetOf(bound, values) ==
    /\ opened
    /\ appends < bound
    /\ \E key \in Keys, value \in values :
          LET a == KvSetAppend(Store, key, value)
          IN  /\ NeedsCompaction(a) => version + 2 <= MaxVersion
              /\ \E order \in IF NeedsCompaction(a)
                                THEN Perms(DOMAIN a.index) ELSE {<<>>} :
                    LET r == KvSet(Store, key, value, order)
                    IN  /\ Returning(r)
                        /\ last' = Call("set", key, value, r.res,
                                        NeedsCompaction(a))
                        /\ ref' = IF r.res.tag = "Ok"
                                  THEN [ref EXCEPT ![key] = value] ELSE ref
    /\ appends' = appends + 1
    /\ UNCHANGED fails

SetWithin(bound) == SetOf(bound, Values)

Set == SetWithin(MaxAppends)

\* set with the values whose records are at and above the threshold.
SetAtThreshold == SetOf(MaxAppends, ThresholdValues)

RemoveWithin(bound) ==
    /\ opened
    /\ \E key \in Keys :
          LET r == KvRemove(Store, key)
          IN  /\ r.res.tag = "Ok" => appends < bound
              /\ Returning(r)
              /\ last' = Call("remove", key, <<>>, r.res, FALSE)
              /\ ref' = IF r.res.tag = "Ok"
                        THEN [ref EXCEPT ![key] = NoValue] ELSE ref
              /\ appends' = IF r.res.tag = "Ok" THEN appends + 1 ELSE appends
    /\ UNCHANGED fails

Remove == RemoveWithin(MaxAppends)

Compact ==
    /\ opened
    /\ version + 2 <= MaxVersion
    /\ \E order \in Perms(DOMAIN index) :
          LET r == KvCompact(Store, order)
          IN  /\ Returning(r)
              /\ last' = Call("compact", <<>>, <<>>, r.res, TRUE)
    /\ UNCHANGED <<ref, appends, fails>>

\* kvs rm <KEY>, run while no store is open on the directory.
CliRm ==
    /\ ~opened
    /\ \E key \in Keys :
          LET c == CliRemove(files, key)
          IN  /\ files' = c.dir
              /\ last' = Call("rm", key, <<>>,
                              [tag |-> "Exit", val |-> c.out, exit |-> c.exit],
                              FALSE)
    /\ UNCHANGED <<opened, index, readers, stale, version, wfile, wpos, wbuf,
                   ref, appends, fails>>

\* The process dies: nothing of the store is left, and nothing is flushed.
Crashed(disk, ver) ==
    /\ files' = disk
    /\ index' = EmptyFn
    /\ readers' = EmptyFn
    /\ stale' = 0
    /\ version' = ver
    /\ wfile' = 0
    /\ wpos' = 0
    /\ wbuf' = <<>>
    /\ opened' = FALSE

\* The process dies inside a call of compact.
CrashInCompact ==
    /\ opened
    /\ version + 2 <= MaxVersion
    /\ \E order \in Perms(DOMAIN index) :
          \E disk \in CompactCrashDisks(Store, order) :
              Crashed(disk, version + 2)
    /\ last' = Call("crash_compact", <<>>, <<>>, Res("Crash"), FALSE)
    /\ UNCHANGED <<ref, appends, fails>>

\* The process dies inside the compaction that a set runs.
CrashInSet ==
    /\ opened
    /\ appends < MaxAppends
    /\ version + 2 <= MaxVersion
    /\ \E key \in Keys, value \in Values :
          LET a == KvSetAppend(Store, key, value)
          IN  /\ NeedsCompaction(a)
              /\ \E order \in Perms(DOMAIN a.index) :
                    \E disk \in CompactCrashDisks(a, order) :
                        Crashed(disk, version + 2)
              /\ last' = Call("crash_set", key, value, Res("Crash"), FALSE)
              /\ ref' = [ref EXCEPT ![key] = value]
    /\ appends' = appends + 1
    /\ UNCHANGED fails

\* The process dies inside the append of a set or of a remove: none of the
\* record, or a part of it, has reached the active log.
CrashInAppend ==
    /\ opened
    /\ appends < MaxAppends
    /\ \E cmd \in {SetCmd(k, v) : k \in Keys, v \in Values}
                    \cup {RemoveCmd(k) : k \in DOMAIN index} :
          /\ \E w \in WriteFailures(Store, cmd) : Crashed(w.files, version)
          /\ last' = Call("crash_append", cmd.key, cmd.value, Res("Crash"),
                          FALSE)
    /\ appends' = appends + 1
    /\ UNCHANGED <<ref, fails>>

\* A set that returns an I/O error.
SetFail ==
    /\ opened
    /\ appends < MaxAppends
    /\ fails < MaxFails
    /\ \E key \in Keys, value \in Values :
          LET a == KvSetAppend(Store, key, value)
          IN  /\ NeedsCompaction(a) => version + 2 <= MaxVersion
              /\ \E order \in IF NeedsCompaction(a)
                                THEN Perms(DOMAIN a.index) ELSE {<<>>} :
                    \E s \in KvSetFailures(Store, key, value, order) :
                        Install(s)
              /\ last' = Call("set", key, value, Res("Io"), FALSE)
    /\ opened' = TRUE
    /\ appends' = appends + 1
    /\ fails' = fails + 1
    /\ UNCHANGED ref

\* A remove that returns an I/O error.
RemoveFail ==
    /\ opened
    /\ appends < MaxAppends
    /\ fails < MaxFails
    /\ \E key \in DOMAIN index :
          /\ \E s \in KvRemoveFailures(Store, key) : Install(s)
          /\ last' = Call("remove", key, <<>>, Res("Io"), FALSE)
    /\ opened' = TRUE
    /\ appends' = appends + 1
    /\ fails' = fails + 1
    /\ UNCHANGED ref

Next ==
    \/ Open
    \/ Close
    \/ Get
    \/ Set
    \/ Remove
    \/ Compact

Spec == Init /\ [][Next]_vars

\* One store opened on the empty directory, then set, remove and get only.
NextMap ==
    \/ Open
    \/ Get
    \/ SetWithin(MaxSessionAppends)
    \/ RemoveWithin(MaxSessionAppends)

SpecMap == Init /\ [][NextMap]_vars

\* Sessions of set and remove, each ended by a drop and followed by an open.
NextReopen == Open \/ Close \/ Set \/ Remove

SpecReopen == Init /\ [][NextReopen]_vars

\* Sessions in which the process may die inside a compaction.
NextCrash ==
    \/ Open
    \/ Close
    \/ Set
    \/ Remove
    \/ Compact
    \/ CrashInCompact
    \/ CrashInSet

SpecCrash == Init /\ [][NextCrash]_vars

\* Sessions in which a set or a remove may return an I/O error.
NextFail ==
    \/ Open
    \/ Close
    \/ Get
    \/ Set
    \/ Remove
    \/ SetFail
    \/ RemoveFail

SpecFail == Init /\ [][NextFail]_vars

\* Sessions in which the process may die inside an append.
NextTorn ==
    \/ Open
    \/ Close
    \/ Get
    \/ Set
    \/ Remove
    \/ CrashInAppend

SpecTorn == Init /\ [][NextTorn]_vars

\* Sessions whose sets bring stale_bytes to the threshold and above it.
NextThreshold ==
    \/ Open
    \/ Close
    \/ Get
    \/ SetAtThreshold
    \/ Remove

SpecThreshold == Init /\ [][NextThreshold]_vars

\* Sessions with get in which the process may die inside a compaction, so
\* that every step of a compaction is seen with readers that get has moved.
NextSteps ==
    \/ Open
    \/ Close
    \/ Get
    \/ Set
    \/ Remove
    \/ Compact
    \/ CrashInCompact
    \/ CrashInSet

SpecSteps == Init /\ [][NextSteps]_vars

\* The store as the command line uses it too: get opens it with open_with_opts.
NextCli == Open \/ OpenWithOpts \/ Close \/ Get \/ Set \/ Remove \/ CliRm

SpecCli == Init /\ [][NextCli]_vars

\* ------------------------------------------------------------------ observations

\* What get(key) returns on the store s.
AnswerIn(s, key) == KvGet(s, key).res

\* The store of the next state.
StoreNext ==
    [files |-> files', index |-> index', readers |-> readers',
     stale |-> stale', version |-> version', wfile |-> wfile',
     wpos |-> wpos', wbuf |-> wbuf']

\* What get(key) returns in the current state.
GetAnswer(key) == AnswerIn(Store, key)

\* What the reference map answers.
RefAnswer(key) ==
    IF ref[key] = NoValue THEN Res("None")
    ELSE [tag |-> "Some", val |-> ref[key]]

\* The step is a compaction that returned: a call of compact, or a set whose
\* compaction check fired.
Compacted == last.compacted /\ last.res.tag = "Ok"

\* The store on which the compaction of the step started.
BeforeCompaction ==
    IF last'.op \in {"set", "crash_set"} THEN KvSetAppend(Store, last'.key, last'.val)
    ELSE Store

\* ------------------------------------------------------------------ claims

\* C1: on a store opened on an empty directory, after any sequence of
\* successful set, remove and get calls, get(k) answers as the reference map
\* does, for every key.
C1_MapEquivalence ==
    opened => \A k \in Keys : GetAnswer(k) = RefAnswer(k)

\* C2: after any sequence of successful set and remove calls over any number
\* of sessions, open on the same directory succeeds and the store it returns
\* answers get(k) as the reference map does, for every key.
C2_ReopenIdentity ==
    last.op = "open" =>
        /\ last.res.tag = "Ok"
        /\ \A k \in Keys : GetAnswer(k) = RefAnswer(k)

\* C3: a compaction, called directly or run by set, changes the answer of
\* get(k) for no key k.
C3_CompactionPreservesAnswers ==
    [][Compacted' =>
          \A k \in Keys :
              AnswerIn(StoreNext, k) = AnswerIn(BeforeCompaction, k)]_vars

C7_AfterCompaction ==
    (opened /\ Compacted) =>
        /\ \A v \in DOMAIN files : v >= version - 1
        /\ Cardinality(DOMAIN files) <= 2

\* A compaction has completed in a second session and removed two older logs.
C7_Witness ==
    /\ opened
    /\ Compacted
    /\ version = 4
    /\ DOMAIN files = {3, 4}

\* The state part of C8.
C8_ActiveIsGreatest ==
    opened =>
        /\ version \in DOMAIN files
        /\ \A v \in DOMAIN files \ {version} : v < version

\* The step part of C8.
C8_Step ==
    /\ (last'.op = "open" /\ last'.res.tag = "Ok") =>
          /\ version' = IF DOMAIN files = {} THEN 1 ELSE Max(DOMAIN files) + 1
          /\ version' \notin DOMAIN files
    /\ Compacted' =>
          /\ version' = version + 2
          /\ version + 1 \notin DOMAIN files
          /\ version + 2 \notin DOMAIN files
          /\ version + 1 \in DOMAIN files'
          /\ \A k \in DOMAIN index' : index'[k].ver = version + 1
    /\ version' >= version

C9_OpenWithOptsNoNewLog ==
    [][(last'.op = "open_with_opts" /\ last'.res.tag = "Ok") =>
          DOMAIN files' = DOMAIN files]_vars

\* The record the locator of key resolves to, as get decodes it.
Resolved(key) ==
    FromReader(Slice(files[index[key].ver], index[key].pos, index[key].len))

\* C10: when the locator of a key resolves to a record that is not a Set, or
\* to a Set of another key, get fails with UnexpectedCommandType.
C10_UnexpectedCommand ==
    opened =>
        \A k \in DOMAIN index :
            (/\ index[k].ver \in DOMAIN files
             /\ Resolved(k).ok
             /\ (Resolved(k).cmd.type # "Set" \/ Resolved(k).cmd.key # k)) =>
                GetAnswer(k).tag = "UnexpectedCommandType"

Ascending(q) == \A i \in 1..(Len(q) - 1) : q[i] < q[i + 1]

\* C6: after a crash at any step of a compaction, an open of the directory
\* succeeds and answers get(k) as the store did just before the compaction
\* started, for every key. (Stated for the directory listings that make open
\* replay the logs in ascending order, as the claim supposes.)
C6_CrashInCompaction ==
    [][last'.op \in {"crash_compact", "crash_set"} =>
          \A heap \in VersionHeaps(files') :
              Ascending(ReplayOrder(heap)) =>
                  /\ KvOpen(files', heap).res.tag = "Ok"
                  /\ \A k \in Keys :
                        AnswerIn(KvOpen(files', heap).s, k)
                            = AnswerIn(BeforeCompaction, k)]_vars

\* C5: a set or a remove that returns an error leaves the index as it was.
C5_FailedCallKeepsIndex ==
    [][(/\ last'.op \in {"set", "remove"}
        /\ last'.res.tag \in {"Io", "Serde", "KeyNotFound"}) =>
          index' = index]_vars

\* The records a call of the model can append.
Commands ==
    {SetCmd(k, v) : k \in Keys, v \in Values} \cup {RemoveCmd(k) : k \in Keys}

\* b is a sequence of whole records, one encoding after the other.
RECURSIVE IsRecordSeq(_)
IsRecordSeq(b) ==
    \/ b = <<>>
    \/ \E cmd \in Commands :
          LET n == Len(Encode(cmd))
          IN  /\ n <= Len(b)
              /\ SubSeq(b, 1, n) = Encode(cmd)
              /\ IsRecordSeq(SubSeq(b, n + 1, Len(b)))

\* Some log of the directory holds a truncated or malformed record.
TornDirectory == \E v \in DOMAIN files : ~IsRecordSeq(files[v])

\* C11: open on a directory in which some log holds a truncated or malformed
\* record fails with an Io or a Serde error and returns no store; the log is
\* left as it is.
C11_TornLogFailsOpen ==
    [][(last'.op = "open" /\ TornDirectory) =>
          /\ last'.res.tag \in {"Io", "Serde"}
          /\ ~opened'
          /\ files' = files]_vars

\* An open has failed on a directory whose active log ends in a part of a
\* record, left by a crash inside an append.
C11_Witness ==
    /\ last.op = "open"
    /\ last.res.tag = "Serde"
    /\ ~opened
    /\ TornDirectory

\* The keys that a store opened on the directory dir can hold.
KeysIn(dir) ==
    UNION {DOMAIN KvOpen(dir, heap).s.index : heap \in VersionHeaps(dir)}

\* C12: kvs rm <KEY> exits 0 and leaves a directory without the key when the
\* store of the directory holds it; it prints "Key not found" and exits with
\* a nonzero code when the store does not hold it.
C12_CliRm ==
    [][last'.op = "rm" =>
          IF last'.key \in KeysIn(files)
          THEN /\ last'.res.exit = 0
               /\ last'.key \notin KeysIn(files')
          ELSE /\ last'.res.val = <<"Key not found">>
               /\ last'.res.exit # 0]_vars

\* The versions of the directory dir from the least to the greatest.
AscendingOrder(dir) == CHOOSE q \in Perms(DOMAIN dir) : Ascending(q)

\* C13: whatever the number of logs and the order in which the directory is
\* listed, open replays the logs from the least version to the greatest, and
\* the index it builds is the one that this order gives.
C13_ReplayAscending ==
    [][(last'.op = "open" /\ last'.res.tag = "Ok") =>
          \A heap \in VersionHeaps(files) :
              /\ Ascending(ReplayOrder(heap))
              /\ KvOpen(files, heap).s.index
                    = LoadAll(Blank(files), AscendingOrder(files), 1).s.index]_vars

\* C14: every key of the index has a locator of a positive length, into a log
\* that exists, whose bytes are exactly the encoding of the Set record of that
\* key with the key's latest value.
C14_LocatorsResolve ==
    opened =>
        \A k \in DOMAIN index :
            /\ index[k].len > 0
            /\ index[k].ver \in DOMAIN files
            /\ Slice(files[index[k].ver], index[k].pos, index[k].len)
                  = Encode(SetCmd(k, ref[k]))

\* The locators of idx lie one after the other from offset 0, in the order
\* order of the keys.
RECURSIVE RunningOffsets(_, _, _, _)
RunningOffsets(idx, order, i, off) ==
    \/ i > Len(order)
    \/ /\ idx[order[i]].pos = off
       /\ RunningOffsets(idx, order, i + 1, off + idx[order[i]].len)

\* C15: a compaction copies, for every entry of the index, exactly the bytes
\* the entry names, wherever earlier calls of get have left the readers; the
\* entry becomes (compact_version, new offset, the same length), the new
\* offsets being the running offsets of the compaction log.
C15_CompactionCopiesExactly ==
    [][Compacted' =>
          LET b == BeforeCompaction
          IN  /\ DOMAIN index' = DOMAIN b.index
              /\ \A k \in DOMAIN b.index :
                    /\ index'[k].ver = b.version + 1
                    /\ index'[k].len = b.index[k].len
                    /\ Slice(files'[index'[k].ver], index'[k].pos,
                             index'[k].len)
                          = Slice(b.files[b.index[k].ver], b.index[k].pos,
                                  b.index[k].len)
              /\ \E order \in Perms(DOMAIN index') :
                    RunningOffsets(index', order, 1, 0)]_vars

\* The writer's pos is the number of bytes written to its log.
WriterPosTracks ==
    opened => wpos = Len(files[wfile]) + Len(wbuf)

\* C16: the pos of every reader is the offset at which its next read starts,
\* as the pos of the writer is the number of bytes written.
C16_ReaderPosTracks ==
    /\ WriterPosTracks
    /\ opened => \A v \in DOMAIN readers : readers[v].pos = readers[v].cur

\* C17: stale_bytes is 0 when a compaction has just completed; so a set that
\* follows a completed compaction runs another one only when it alone makes
\* more than MAX_STALE_BYTES bytes stale.
C17_StaleResetByCompaction ==
    /\ []((opened /\ Compacted) => stale = 0)
    /\ [][(Compacted /\ last'.op = "set" /\ Compacted') =>
             /\ last'.key \in DOMAIN index
             /\ index[last'.key].len > MAX_STALE_BYTES]_vars

\* C18: a successful remove(k) adds to stale_bytes the length of k's Set
\* record and the length of the Remove record it has written, which is what
\* load adds when it replays that Remove record over the same index.
C18_RemoveStaleBytes ==
    [][(last'.op = "remove" /\ last'.res.tag = "Ok") =>
          LET k == last'.key
              rm == Encode(RemoveCmd(k))
          IN  /\ stale' = stale + index[k].len + Len(rm)
              /\ stale' - stale = Load(version, rm, index).stale]_vars

\* C19: a successful set adds the length of the key's old locator to
\* stale_bytes when the key was in the index and nothing otherwise, and it runs
\* a compaction (the active version grows by two) exactly when the counter is
\* then strictly above MAX_STALE_BYTES; remove runs no compaction.
C19_SetCountsAndCompacts ==
    [][/\ (last'.op = "set" /\ last'.res.tag = "Ok") =>
             LET k == last'.key
                 counter == stale + (IF k \in DOMAIN index
                                     THEN index[k].len ELSE 0)
             IN  /\ version' \in {version, version + 2}
                 /\ (version' = version + 2) <=> (counter > MAX_STALE_BYTES)
                 /\ version' = version => stale' = counter
       /\ (last'.op = "remove" /\ last'.res.tag = "Ok") =>
             /\ version' = version
             /\ DOMAIN files' = DOMAIN files]_vars

\* A set has brought stale_bytes to exactly MAX_STALE_BYTES and has run no
\* compaction.
C19_Witness ==
    /\ opened
    /\ last.op = "set"
    /\ last.res.tag = "Ok"
    /\ stale = MAX_STALE_BYTES
    /\ version = 1

\* The store of a set step right after its append and flush: the next state,
\* or the state on which the compaction of the set started.
AfterAppend ==
    IF last'.compacted THEN KvSetAppend(Store, last'.key, last'.val)
    ELSE StoreNext

HoldsRecord(b, rec) ==
    \E off \in 0..(Len(b) - Len(rec)) : Slice(b, off, Len(rec)) = rec

\* C21: at every step of a compaction, the last one included, every key of
\* the index has its latest Set record in some log file of the directory.
C21_NoLiveBytesLost ==
    [][(Compacted' \/ last'.op \in {"crash_compact", "crash_set"}) =>
          \A k \in DOMAIN BeforeCompaction.index :
              \E v \in DOMAIN files' :
                  HoldsRecord(files'[v], Encode(SetCmd(k, ref'[k])))]_vars

\* C22: while a store is open, the readers map has a reader for the version
\* of every locator of the index and for the active version, and its keys are
\* the versions of the log files of the directory; no call reaches the
\* "Cannot find log reader" panic of get and compact.
C22_ReadersCoverLogs ==
    /\ last.res.tag # "Panic"
    /\ opened =>
          /\ \A k \in DOMAIN index : index[k].ver \in DOMAIN readers
          /\ version \in DOMAIN readers
          /\ DOMAIN readers = DOMAIN files

\* A get has read its record through the reader of the log that a compaction
\* wrote, the readers of the older logs being gone with their files.
C22_Witness ==
    /\ opened
    /\ last.op = "get"
    /\ last.res.tag = "Some"
    /\ index[last.key].ver = version - 1
    /\ DOMAIN readers = {version - 1, version}
    /\ version > 3

====
